---- MODULE Spec2Model ----
(***************************************************************************)
(* A model of mongo-mcp (src/src/index.ts): the output bounding pass       *)
(* (truncateForOutput / truncateValue), the response formatter             *)
(* (formatJsonOutput), the connection registry (ensureConnection) and the  *)
(* tool handlers.                                                          *)
(*                                                                         *)
(* JavaScript strings are TLA+ strings (Len, \o and SubSeq act on them as  *)
(* length, concatenation and slice).  The strings of the inputs hold no    *)
(* character that JSON.stringify escapes, so a string literal serializes   *)
(* to its characters between two quotes.                                   *)
(***************************************************************************)
EXTENDS Integers, Sequences, FiniteSets, TLC

VARIABLES
    obj,              \* truncateForOutput: the argument obj
    maxOutputLength,  \* truncateForOutput: the argument maxOutputLength
    result,           \* truncateForOutput: the returned value
    returned,         \* whether truncateForOutput has returned
    env,              \* process.env.MONGODB_URI
    mongoClient,      \* the module's mongoClient: NoClient, or an index of clients
    clients,          \* the MongoClient objects constructed so far
    databases,        \* the module's databases map
    dbCreated,        \* how many Db objects mongoClient.db() has made
    tasks,            \* the handler of each invocation
    sent              \* the response the transport sent last

truncVars == <<obj, maxOutputLength, result, returned>>
serverVars == <<env, mongoClient, clients, databases, dbCreated, tasks, sent>>
vars == <<truncVars, serverVars>>

-----------------------------------------------------------------------------
(* Program constants *)

StringLimit == 200
KeyLimit == 200
DefaultMaxOutputLength == 25000

(* Bounds of the inputs *)

MaxArrayLength == 3     \* arrays of the inputs hold 0..MaxArrayLength items
MaxExtra == 2           \* strings and objects exceed a limit by 1..MaxExtra
MaxIndexKey == 3        \* integer-like keys of the inputs are "0".."3"
NumInvocations == 2     \* tool invocations in one run of the server
MaxLimit == 3           \* find-documents is called with limit 0..MaxLimit
MaxDocuments == 4       \* a collection holds 0..MaxDocuments matching documents
BigBodyLength == 13000  \* the length of the long field of a big document

-----------------------------------------------------------------------------
(* TreeValue: the JSON values the pass walks.  An object is the sequence   *)
(* of its entries in insertion order, keys distinct.                       *)

Null == [t |-> "null"]
Bool(b) == [t |-> "bool", b |-> b]
Num(n) == [t |-> "num", n |-> n]
Str(s) == [t |-> "str", s |-> s]
Arr(a) == [t |-> "arr", a |-> a]
Obj(kv) == [t |-> "obj", kv |-> kv]
Entry(k, v) == [k |-> k, v |-> v]

RECURSIVE Repeat(_, _)
Repeat(s, n) ==
    IF n = 0 THEN ""
    ELSE IF n % 2 = 0 THEN LET h == Repeat(s, n \div 2) IN h \o h
    ELSE Repeat(s, n - 1) \o s

(* An array index key: the canonical decimal form of a small natural.      *)
IndexKeys == {ToString(n) : n \in 0..MaxIndexKey}
IsArrayIndex(k) == k \in IndexKeys
IndexValue(k) == CHOOSE n \in 0..MaxIndexKey : ToString(n) = k

InsertionKeys(o) == [i \in 1..Len(o.kv) |-> o.kv[i].k]

(* Object.keys(value): the integer-like keys in ascending numeric order,   *)
(* then the other keys in insertion order.                                 *)
ObjectKeys(o) ==
    LET ins == InsertionKeys(o)
        idx == {IndexValue(ins[i]) : i \in {j \in 1..Len(ins) : IsArrayIndex(ins[j])}}
        nth(j) == CHOOSE n \in idx : Cardinality({m \in idx : m < n}) = j - 1
        sorted == [j \in 1..Cardinality(idx) |-> ToString(nth(j))]
    IN  sorted \o SelectSeq(ins, LAMBDA k : ~IsArrayIndex(k))

HasKey(o, key) == \E i \in 1..Len(o.kv) : o.kv[i].k = key
Get(o, key) == o.kv[CHOOSE i \in 1..Len(o.kv) : o.kv[i].k = key].v

(* result[key] = v: an existing property keeps its place, a new one is     *)
(* added last.                                                             *)
SetProperty(o, key, v) ==
    IF HasKey(o, key)
    THEN Obj([i \in 1..Len(o.kv) |->
                IF o.kv[i].k = key THEN Entry(key, v) ELSE o.kv[i]])
    ELSE Obj(Append(o.kv, Entry(key, v)))

-----------------------------------------------------------------------------
(* JSON.stringify(value): the compact serialization.                       *)

RECURSIVE Join(_, _)
Join(parts, sep) ==
    IF Len(parts) = 0 THEN ""
    ELSE IF Len(parts) = 1 THEN parts[1]
    ELSE LET h == Len(parts) \div 2
         IN  Join(SubSeq(parts, 1, h), sep) \o sep
               \o Join(SubSeq(parts, h + 1, Len(parts)), sep)

Quote(s) == "\"" \o s \o "\""

RECURSIVE Stringify(_)
Stringify(value) ==
    CASE value.t = "null" -> "null"
      [] value.t = "bool" -> IF value.b THEN "true" ELSE "false"
      [] value.t = "num"  -> ToString(value.n)
      [] value.t = "str"  -> Quote(value.s)
      [] value.t = "arr"  ->
            "[" \o Join([i \in 1..Len(value.a) |-> Stringify(value.a[i])], ",") \o "]"
      [] value.t = "obj"  ->
            LET keys == ObjectKeys(value)
            IN  "{" \o Join([i \in 1..Len(keys) |->
                              Quote(keys[i]) \o ":" \o Stringify(Get(value, keys[i]))],
                            ",") \o "}"

-----------------------------------------------------------------------------
(* truncateForOutput and its inner truncateValue.                          *)

MoreCharacters(remaining) == "..." \o ToString(remaining) \o " more characters"
MoreItems(remaining) == "..." \o ToString(remaining) \o " more items"
MoreProperties(remaining) == "..." \o ToString(remaining) \o " more properties"

RECURSIVE truncateValue(_)

(* const result = {}; for (const key of keys) result[key] =                *)
(* truncateValue(value[key]): the keys are distinct, so each assignment    *)
(* adds a property after the ones before it.                               *)
CopyTruncated(value, keys) ==
    Obj([i \in 1..Len(keys) |-> Entry(keys[i], truncateValue(Get(value, keys[i])))])

truncateStringCountsAll(value) ==
    LET truncated == SubSeq(value.s, 1, StringLimit)
        remaining == Len(value.s)
    IN  Str(truncated \o MoreCharacters(remaining))

truncateStringKeepsAll(value) ==
    LET remaining == Len(value.s) - StringLimit
    IN  Str(value.s \o MoreCharacters(remaining))

truncateString(value) ==
    LET truncated == SubSeq(value.s, 1, StringLimit)
        remaining == Len(value.s) - StringLimit
    IN  Str(truncated \o MoreCharacters(remaining))

truncateArrayKeepsPairs(value) ==
    IF Len(value.a) <= 2
    THEN Arr([i \in 1..Len(value.a) |-> truncateValue(value.a[i])])
    ELSE Arr(<<truncateValue(value.a[1]), Str(MoreItems(Len(value.a) - 1))>>)

truncateArrayShallow(value) ==
    IF Len(value.a) <= 1
    THEN value
    ELSE Arr(<<value.a[1], Str(MoreItems(Len(value.a) - 1))>>)

truncateArray(value) ==
    IF Len(value.a) <= 1
    THEN Arr([i \in 1..Len(value.a) |-> truncateValue(value.a[i])])
    ELSE LET firstItem == truncateValue(value.a[1])
             remaining == Len(value.a) - 1
         IN  Arr(<<firstItem, Str(MoreItems(remaining))>>)

truncateObjectNoMarker(value) ==
    LET keys == ObjectKeys(value)
    IN  IF Len(keys) <= KeyLimit
        THEN CopyTruncated(value, keys)
        ELSE CopyTruncated(value, SubSeq(keys, 1, KeyLimit))

truncateObject(value) ==
    LET keys == ObjectKeys(value)
    IN  IF Len(keys) <= KeyLimit
        THEN CopyTruncated(value, keys)
        ELSE LET firstKeys == SubSeq(keys, 1, KeyLimit)
                 remaining == Len(keys) - KeyLimit
             IN  SetProperty(CopyTruncated(value, firstKeys),
                             MoreProperties(remaining), Str("..."))

truncateValue(value) ==
    IF value.t = "str" /\ Len(value.s) > StringLimit THEN truncateString(value)
    ELSE IF value.t = "arr" THEN truncateArray(value)
    ELSE IF value.t = "obj" THEN truncateObject(value)
    ELSE value

truncateForOutputStrict(o, maxLen) ==
    IF Len(Stringify(o)) < maxLen THEN o ELSE truncateValue(o)

truncateForOutput(o, maxLen) ==
    LET estimatedSize == Len(Stringify(o))
    IN  IF estimatedSize <= maxLen THEN o ELSE truncateValue(o)

-----------------------------------------------------------------------------
(* formatJsonOutput: JSON.stringify(value, null, 2), then the two          *)
(* replacements that take the quotes off the array and object markers.     *)

RECURSIVE Pretty(_, _)
Pretty(value, indent) ==
    LET inner == indent \o "  "
    IN  CASE value.t = "arr" ->
                IF Len(value.a) = 0 THEN "[]"
                ELSE "[\n" \o inner
                       \o Join([i \in 1..Len(value.a) |-> Pretty(value.a[i], inner)],
                               ",\n" \o inner)
                       \o "\n" \o indent \o "]"
          [] value.t = "obj" ->
                LET keys == ObjectKeys(value)
                IN  IF Len(keys) = 0 THEN "{}"
                    ELSE "{\n" \o inner
                           \o Join([i \in 1..Len(keys) |->
                                      Quote(keys[i]) \o ": "
                                        \o Pretty(Get(value, keys[i]), inner)],
                                   ",\n" \o inner)
                           \o "\n" \o indent \o "}"
          [] OTHER -> Stringify(value)

(* text.slice(i - 1, j): the characters i..j of text that exist.           *)
Slice(text, i, j) ==
    LET last == IF j <= Len(text) THEN j ELSE Len(text)
    IN  IF i < 1 \/ i > last THEN "" ELSE SubSeq(text, i, last)

IsDigit(c) == c \in {"0", "1", "2", "3", "4", "5", "6", "7", "8", "9"}

(* The length of the run of digits of text that starts at i: what \d+      *)
(* takes when a character that is no digit has to follow it.               *)
RECURSIVE DigitRun(_, _)
DigitRun(text, i) ==
    IF IsDigit(Slice(text, i, i)) THEN 1 + DigitRun(text, i + 1) ELSE 0

(* /"\.\.\.(\d+) more items"/ at i: the index of the last character of     *)
(* the match, or 0.                                                        *)
ItemsMatchEnd(text, i) ==
    IF Slice(text, i, i + 3) # "\"..." THEN 0
    ELSE LET d == DigitRun(text, i + 4)
             e == i + 4 + d
         IN  IF d >= 1 /\ Slice(text, e, e + 11) = " more items\""
             THEN e + 11 ELSE 0

(* "...$1 more items"                                                      *)
ItemsReplacement(text, i, e) == Slice(text, i + 1, e - 1)

(* /"\.\.\.(\d+) more properties": "\.\.\.?"/ at i: the index of the last  *)
(* character of the match, or 0.                                           *)
PropertiesMatchEnd(text, i) ==
    IF Slice(text, i, i + 3) # "\"..." THEN 0
    ELSE LET d == DigitRun(text, i + 4)
             e == i + 4 + d
         IN  IF d >= 1 /\ Slice(text, e, e + 21) = " more properties\": \".."
             THEN IF Slice(text, e + 22, e + 23) = ".\"" THEN e + 23
                  ELSE IF Slice(text, e + 22, e + 22) = "\"" THEN e + 22
                  ELSE 0
             ELSE 0

(* "...$1 more properties"                                                 *)
PropertiesReplacement(text, i, e) ==
    Slice(text, i + 1, i + 3 + DigitRun(text, i + 4) + 16)

MatchEnd(pattern, text, i) ==
    IF pattern = "items" THEN ItemsMatchEnd(text, i) ELSE PropertiesMatchEnd(text, i)

Replacement(pattern, text, i, e) ==
    IF pattern = "items" THEN ItemsReplacement(text, i, e)
    ELSE PropertiesReplacement(text, i, e)

(* text.replace(pattern, replacement) with the g flag: the matches from    *)
(* left to right, each search resuming after the match before it.          *)
ReplaceAll(text, pattern) ==
    LET starts == {i \in 1..Len(text) : MatchEnd(pattern, text, i) > 0}
        RECURSIVE From(_)
        From(pos) ==
            LET rest == {i \in starts : i >= pos}
            IN  IF rest = {} THEN Slice(text, pos, Len(text))
                ELSE LET s == CHOOSE i \in rest : \A j \in rest : i <= j
                         e == MatchEnd(pattern, text, s)
                     IN  Slice(text, pos, s - 1) \o Replacement(pattern, text, s, e)
                           \o From(e + 1)
    IN  From(1)

formatJsonOutput(data) ==
    LET truncatedData == truncateForOutput(data, DefaultMaxOutputLength)
        outputText == Pretty(truncatedData, "")
        unquotedItems == ReplaceAll(outputText, "items")
    IN  ReplaceAll(unquotedItems, "properties")

-----------------------------------------------------------------------------
(* The connection registry and the tool handlers.                          *)
(*                                                                         *)
(* A handler runs until it awaits a promise that is not yet settled        *)
(* (connect(), the driver call).  The continuation of an await on a        *)
(* settled promise runs in a microtask, before any other invocation or     *)
(* completion is delivered, and touches the handler's own locals only: it  *)
(* is part of the step that settled the promise.  When a handler returns   *)
(* or throws, its response is what the transport sends next.               *)

Undefined == [t |-> "undefined"]
Falsy(v) == v.t = "undefined" \/ (v.t = "str" /\ v.s = "")

Error(message) == [isError |-> TRUE, message |-> message]
Return(value) == [threw |-> FALSE, value |-> value]
Throw(error) == [threw |-> TRUE, error |-> error]

Tools == {"mongo-create-document", "mongo-find-documents", "mongo-update-document",
          "mongo-delete-document", "mongo-aggregate", "mongo-count-documents",
          "mongo-list-collections"}

NoClient == 0
NoDb == [serial |-> 0]
NoMessage == [task |-> 0]
Idle == [pc |-> "idle"]

Tasks == 1..NumInvocations

getMongoUriDefault ==
    IF Falsy(env) THEN Return("mongodb://localhost:27017") ELSE Return(env.s)

getMongoUri ==
    LET uri == env
    IN  IF Falsy(uri)
        THEN Throw(Error("MONGODB_URI environment variable is not set"))
        ELSE Return(uri.s)

NeedsClientUntilConnected ==
    mongoClient = NoClient \/ clients[mongoClient].connect # "resolved"

NeedsClientAfterFailure ==
    mongoClient = NoClient \/ clients[mongoClient].connect = "rejected"

(* if (!mongoClient)                                                       *)
NeedsClient == mongoClient = NoClient

(* new MongoClient(uri), and the connect() called on it.                   *)
MongoClient(uri) == [uri |-> uri, connect |-> "pending", connectCalls |-> 1]

(* mongoClient.db(dbName): a new Db object.                                *)
Db(client, dbName, serial) == [client |-> client, name |-> dbName, serial |-> serial]

CacheAfterFresh(dbName) ==
    [databases EXCEPT ![dbName] = Db(mongoClient, dbName, dbCreated + 1)]

(* ensureConnection, lines 95-99: the cache after the lookup.              *)
CacheAfter(dbName) ==
    IF databases[dbName] = NoDb
    THEN [databases EXCEPT ![dbName] = Db(mongoClient, dbName, dbCreated + 1)]
    ELSE databases

DbCreatedAfter(dbName) ==
    IF databases[dbName] = NoDb THEN dbCreated + 1 ELSE dbCreated

(* The words after "Failed to " in each handler's catch.                   *)
Operation(tool) ==
    CASE tool = "mongo-create-document" -> "create document"
      [] tool = "mongo-find-documents" -> "find documents"
      [] tool = "mongo-update-document" -> "update document(s)"
      [] tool = "mongo-delete-document" -> "delete document(s)"
      [] tool = "mongo-aggregate" -> "execute aggregation"
      [] tool = "mongo-count-documents" -> "count documents"
      [] tool = "mongo-list-collections" -> "list collections"

(* The driver operation a handler issues.                                  *)
DriverCall(tool, args) ==
    CASE tool = "mongo-create-document" -> "insertOne"
      [] tool = "mongo-find-documents" -> "find"
      [] tool = "mongo-update-document" ->
            IF args.many THEN "updateMany" ELSE "updateOne"
      [] tool = "mongo-delete-document" ->
            IF args.many THEN "deleteMany" ELSE "deleteOne"
      [] tool = "mongo-aggregate" -> "aggregate"
      [] tool = "mongo-count-documents" -> "countDocuments"
      [] tool = "mongo-list-collections" -> "listCollections"

ErrorTextUnknown(error) == "Unknown error"

(* error instanceof Error ? error.message : 'Unknown error'                *)
ErrorText(error) == IF error.isError THEN error.message ELSE "Unknown error"

FailureMessage(tool, error) ==
    "Failed to " \o Operation(tool) \o ": " \o ErrorText(error)

cursorToArrayUnlimited(matching, limit) == matching

(* collection.find(filter), cursor.limit(limit) when limit is truthy,      *)
(* cursor.toArray(): the matching documents, at most limit of them.        *)
cursorToArray(matching, limit) ==
    IF limit.t = "num" /\ limit.n # 0
    THEN SubSeq(matching, 1, IF limit.n <= Len(matching) THEN limit.n ELSE Len(matching))
    ELSE matching

(* The text of the content block a handler returns, from what the driver   *)
(* call resolved with.                                                     *)
SuccessText(tool, dbName, args, data) ==
    CASE tool = "mongo-create-document" ->
            "Document created successfully with ID: " \o data.insertedId
      [] tool = "mongo-find-documents" ->
            LET documents == cursorToArray(data.matching, args.limit)
                formattedOutput == formatJsonOutput(Arr(documents))
            IN  "Found " \o ToString(Len(documents)) \o " document(s):\n\n"
                  \o formattedOutput
      [] tool = "mongo-update-document" ->
            "Update operation completed. Matched: " \o ToString(data.matchedCount)
              \o ", Modified: " \o ToString(data.modifiedCount)
      [] tool = "mongo-delete-document" ->
            "Delete operation completed. Deleted " \o ToString(data.deletedCount)
              \o " document(s)"
      [] tool = "mongo-aggregate" ->
            LET documents == data.documents
                formattedOutput == formatJsonOutput(Arr(documents))
            IN  "Aggregation returned " \o ToString(Len(documents))
                  \o " document(s):\n\n" \o formattedOutput
      [] tool = "mongo-count-documents" ->
            "Found " \o ToString(data.count) \o " document(s) matching the filter"
      [] tool = "mongo-list-collections" ->
            "Collections in database '" \o dbName \o "':\n" \o Join(data.names, "\n")

(* A handler's task once it has returned or thrown: the driver calls it    *)
(* issued and the stage its failure came from ("none": it returned).       *)
Closed(ops, stage, threw) ==
    [pc |-> "closed", ops |-> ops, stage |-> stage, threw |-> threw]

(* catch (error) { throw new Error(`Failed to ...`) }                      *)
Fail(t, inv, ops, stage, error) ==
    /\ tasks' = [tasks EXCEPT ![t] = Closed(ops, stage, TRUE)]
    /\ sent' = [task |-> t, tool |-> inv.tool, database |-> inv.database,
                args |-> inv.args, isError |-> TRUE,
                text |-> FailureMessage(inv.tool, error), cause |-> error]

(* The handler has its Db: db.collection(...), and the driver call.        *)
IssueDriverCall(t, inv, handle) ==
    tasks' = [tasks EXCEPT ![t] =
                [pc |-> "driver", inv |-> inv, db |-> handle,
                 call |-> DriverCall(inv.tool, inv.args), ops |-> 1]]

(* A tool invocation arrives: the handler runs ensureConnection up to its  *)
(* first pending await.                                                    *)
Invoke(t, inv) ==
    /\ tasks[t].pc = "idle"
    /\ t > 1 => tasks[t - 1].pc # "idle"
    /\ IF NeedsClient
       THEN LET uri == getMongoUri
            IN  IF uri.threw
                THEN /\ Fail(t, inv, 0, "config", uri.error)
                     /\ UNCHANGED <<mongoClient, clients, databases, dbCreated>>
                ELSE /\ clients' = Append(clients, MongoClient(uri.value))
                     /\ mongoClient' = Len(clients) + 1
                     /\ tasks' = [tasks EXCEPT ![t] =
                                    [pc |-> "connecting", inv |-> inv,
                                     client |-> Len(clients) + 1, ops |-> 0]]
                     /\ UNCHANGED <<databases, dbCreated, sent>>
       ELSE /\ databases' = CacheAfter(inv.database)
            /\ dbCreated' = DbCreatedAfter(inv.database)
            /\ IssueDriverCall(t, inv, CacheAfter(inv.database)[inv.database])
            /\ UNCHANGED <<mongoClient, clients, sent>>
    /\ UNCHANGED <<env, truncVars>>

(* connect() resolves: ensureConnection goes on to the cache, the handler  *)
(* to its driver call.                                                     *)
ConnectResolves(t) ==
    /\ tasks[t].pc = "connecting"
    /\ clients' = [clients EXCEPT ![tasks[t].client].connect = "resolved"]
    /\ databases' = CacheAfter(tasks[t].inv.database)
    /\ dbCreated' = DbCreatedAfter(tasks[t].inv.database)
    /\ IssueDriverCall(t, tasks[t].inv,
                       CacheAfter(tasks[t].inv.database)[tasks[t].inv.database])
    /\ UNCHANGED <<env, mongoClient, sent, truncVars>>

(* connect() rejects: the handler's catch.                                 *)
ConnectRejects(t, error) ==
    /\ tasks[t].pc = "connecting"
    /\ clients' = [clients EXCEPT ![tasks[t].client].connect = "rejected"]
    /\ Fail(t, tasks[t].inv, tasks[t].ops, "connect", error)
    /\ UNCHANGED <<env, mongoClient, databases, dbCreated, truncVars>>

(* The driver call resolves: the handler returns its content block.        *)
DriverResolves(t, data) ==
    /\ tasks[t].pc = "driver"
    /\ tasks' = [tasks EXCEPT ![t] = Closed(tasks[t].ops, "none", FALSE)]
    /\ sent' = [task |-> t, tool |-> tasks[t].inv.tool,
                database |-> tasks[t].inv.database, args |-> tasks[t].inv.args,
                isError |-> FALSE,
                text |-> SuccessText(tasks[t].inv.tool, tasks[t].inv.database,
                                     tasks[t].inv.args, data),
                data |-> data]
    /\ UNCHANGED <<env, mongoClient, clients, databases, dbCreated, truncVars>>

DriverRejectsRetries(t, error) ==
    /\ tasks[t].pc = "driver"
    /\ IF tasks[t].ops < 2
       THEN /\ tasks' = [tasks EXCEPT ![t].ops = @ + 1]
            /\ UNCHANGED sent
       ELSE Fail(t, tasks[t].inv, tasks[t].ops, "driver", error)
    /\ UNCHANGED <<env, mongoClient, clients, databases, dbCreated, truncVars>>

(* The driver call rejects: the handler's catch.                           *)
DriverRejects(t, error) ==
    /\ tasks[t].pc = "driver"
    /\ Fail(t, tasks[t].inv, tasks[t].ops, "driver", error)
    /\ UNCHANGED <<env, mongoClient, clients, databases, dbCreated, truncVars>>

(* process.env.MONGODB_URI is given another value.                         *)
SetEnv(value) ==
    /\ env # value
    /\ env' = value
    /\ UNCHANGED <<mongoClient, clients, databases, dbCreated, tasks, sent, truncVars>>

-----------------------------------------------------------------------------
(* The inputs of the bounding pass.                                        *)

LongString(extra) == Str(Repeat("a", StringLimit - 1) \o "b" \o Repeat("c", extra))

Leaves ==
    {Null, Bool(TRUE), Num(7), Str(""), Str("xy"), Str(Repeat("a", StringLimit)),
     Str(MoreItems(5))}
    \cup {LongString(e) : e \in 1..MaxExtra}

(* An array of n items: first, then rest repeated.                         *)
ArrayOf(n, first, rest) == Arr([i \in 1..n |-> IF i = 1 THEN first ELSE rest])

(* An object of n keys k1..kn: v under k1, w under every other key.        *)
ObjectOf(n, v, w) ==
    Obj([i \in 1..n |-> Entry("k" \o ToString(i), IF i = 1 THEN v ELSE w)])

(* ObjectOf with one more key, inserted last.                              *)
WithLast(o, key, v) == Obj(Append(o.kv, Entry(key, v)))

KeyCounts == {0, 1, 2, KeyLimit} \cup {KeyLimit + e : e \in 1..MaxExtra}

Arrays(S, R) == {ArrayOf(n, f, r) : n \in 0..MaxArrayLength, f \in S, r \in R}

Objects(S, R) ==
    {ObjectOf(n, v, w) : n \in KeyCounts, v \in S, w \in R}
    \cup {WithLast(ObjectOf(n, v, w), ToString(i), v) :
            n \in {1, KeyLimit - 1, KeyLimit, KeyLimit + 1}, v \in S, w \in R,
            i \in {0, MaxIndexKey}}
    \cup {WithLast(WithLast(ObjectOf(KeyLimit - 1, v, w), ToString(MaxIndexKey), v),
                   "0", v) : v \in S, w \in R}
    \cup {WithLast(ObjectOf(KeyLimit - 2 + e, v, w), MoreProperties(e), v) :
            e \in 1..MaxExtra, v \in S, w \in R}
    \cup {Obj(<<Entry(MoreProperties(e), v)>> \o ObjectOf(KeyLimit - 1 + e, v, w).kv) :
            e \in 1..MaxExtra, v \in S, w \in R}

Fill == {Num(7), LongString(1)}
Level1 == Arrays(Leaves, Fill) \cup Objects({Num(7), LongString(MaxExtra)}, Fill)

Nested ==
    { ArrayOf(2, Arr(<<LongString(1)>>), Num(7)),
      ArrayOf(1, ArrayOf(MaxArrayLength, LongString(1), Num(7)), Num(7)),
      ObjectOf(2, ArrayOf(2, LongString(1), Num(7)), Num(7)),
      ObjectOf(KeyLimit + 1, ArrayOf(2, LongString(1), Num(7)), Str("xy")),
      ObjectOf(KeyLimit + 1, ObjectOf(KeyLimit + 1, LongString(1), Num(7)), Null) }

Level2 ==
    Arrays(Nested, {Num(7)})
    \cup {ObjectOf(n, v, Num(7)) : n \in {1, KeyLimit + 1}, v \in Nested}

(* Values whose dropped content is one character shorter than the marker   *)
(* that replaces it, as long, and one character longer.                    *)
AroundBreakEven ==
    LET text(n) == Str(Repeat("e", n))
    IN  UNION {{ text(StringLimit + Len(MoreCharacters(10)) + d),
                 ArrayOf(2, Num(7), text(Len(MoreItems(1)) + d)),
                 WithLast(ObjectOf(KeyLimit, Num(7), Num(7)), "z",
                          text(Len(Quote(MoreProperties(1))) + d)),
                 ArrayOf(1, text(StringLimit + Len(MoreCharacters(10)) + d), Num(7)) } :
               d \in {-1, 0, 1}}

Inputs == Leaves \cup Level1 \cup Level2 \cup AroundBreakEven

Budgets(v) ==
    LET size == Len(Stringify(v))
    IN  {0, size - 1, size, size + 1, DefaultMaxOutputLength}

-----------------------------------------------------------------------------
(* The inputs of the handlers: invocations, what the database holds and    *)
(* what the driver fails with.                                             *)

DbNames == {"app", "logs"}
MongoUri == "mongodb://localhost:27017"
EnvValues == {Undefined, Str(""), Str(MongoUri)}

NoArgs == [limit |-> Undefined, many |-> FALSE]

ArgsOf(tool) ==
    CASE tool \in {"mongo-update-document", "mongo-delete-document"} ->
            {[limit |-> Undefined, many |-> m] : m \in BOOLEAN}
      [] OTHER -> {NoArgs}

Invocations ==
    UNION {{[tool |-> tool, database |-> d, args |-> a] : d \in DbNames, a \in ArgsOf(tool)} :
             tool \in Tools}

SmallDocument(i) == Obj(<<Entry("_id", Num(i)), Entry("name", Str("n" \o ToString(i)))>>)
BigDocument(i) ==
    Obj(<<Entry("_id", Num(i)), Entry("body", Str(Repeat("x", BigBodyLength)))>>)

(* What the driver call of an invocation may resolve with.                 *)
DriverData(inv) ==
    CASE inv.tool = "mongo-create-document" -> {[insertedId |-> "665f1c2e9b1e8a0012345678"]}
      [] inv.tool = "mongo-find-documents" ->
            {[matching |-> <<SmallDocument(1), SmallDocument(2)>>]}
      [] inv.tool = "mongo-update-document" ->
            {[matchedCount |-> IF inv.args.many THEN 5 ELSE 1,
              modifiedCount |-> IF inv.args.many THEN 5 ELSE 0]}
      [] inv.tool = "mongo-delete-document" ->
            {[deletedCount |-> IF inv.args.many THEN 3 ELSE 1]}
      [] inv.tool = "mongo-aggregate" -> {[documents |-> <<SmallDocument(1)>>]}
      [] inv.tool = "mongo-count-documents" -> {[count |-> 10]}
      [] inv.tool = "mongo-list-collections" -> {[names |-> <<>>], [names |-> <<"users", "orders">>]}

ConnectErrors == {Error("connect ECONNREFUSED 127.0.0.1:27017")}
DriverErrors == {Error("E11000 duplicate key error collection")}

(* find-documents alone: the limits, and collections of small and of big   *)
(* documents.                                                              *)
FindInvocations ==
    {[tool |-> "mongo-find-documents", database |-> d,
      args |-> [limit |-> l, many |-> FALSE]] :
        d \in DbNames, l \in {Undefined} \cup {Num(n) : n \in 0..MaxLimit}}

Collection(m, kind) ==
    [i \in 1..m |->
        IF kind = "big" THEN BigDocument(i) ELSE SmallDocument(i)]

FindData ==
    {[matching |-> Collection(m, kind)] :
        m \in 0..MaxDocuments, kind \in {"small", "big"}}

-----------------------------------------------------------------------------
(* The specifications.                                                     *)

NoCall ==
    /\ obj = Null
    /\ maxOutputLength = DefaultMaxOutputLength
    /\ result = Null
    /\ returned = FALSE

NoServer(uri) ==
    /\ env = uri
    /\ mongoClient = NoClient
    /\ clients = <<>>
    /\ databases = [n \in DbNames |-> NoDb]
    /\ dbCreated = 0
    /\ tasks = [t \in Tasks |-> Idle]
    /\ sent = NoMessage

(* One call of truncateForOutput.                                          *)
InitTruncate ==
    /\ obj \in Inputs
    /\ maxOutputLength \in Budgets(obj)
    /\ result = Null
    /\ returned = FALSE
    /\ NoServer(Undefined)

CallTruncateForOutput ==
    /\ ~returned
    /\ result' = truncateForOutput(obj, maxOutputLength)
    /\ returned' = TRUE
    /\ UNCHANGED <<obj, maxOutputLength>>
    /\ UNCHANGED serverVars

NextTruncate == CallTruncateForOutput

SpecTruncate == InitTruncate /\ [][NextTruncate]_vars

(* The server: NumInvocations tool invocations, in any interleaving.       *)
Init ==
    /\ NoCall
    /\ \E uri \in EnvValues : NoServer(uri)

Next ==
    \/ \E t \in Tasks, inv \in Invocations : Invoke(t, inv)
    \/ \E t \in Tasks : ConnectResolves(t)
    \/ \E t \in Tasks, error \in ConnectErrors : ConnectRejects(t, error)
    \/ \E t \in {u \in Tasks : tasks[u].pc = "driver"} :
          \E data \in DriverData(tasks[t].inv) : DriverResolves(t, data)
    \/ \E t \in Tasks, error \in DriverErrors : DriverRejects(t, error)
    \/ \E value \in EnvValues : SetEnv(value)

Spec == Init /\ [][Next]_vars

(* The first invocation of the process is find-documents, against          *)
(* collections of every size.                                              *)
InitFind ==
    /\ NoCall
    /\ NoServer(Str(MongoUri))

NextFind ==
    \/ \E inv \in FindInvocations : Invoke(1, inv)
    \/ ConnectResolves(1)
    \/ \E data \in FindData : DriverResolves(1, data)

SpecFind == InitFind /\ [][NextFind]_vars

-----------------------------------------------------------------------------
(* Properties of the bounding pass.                                        *)

OverBudget == returned /\ Len(Stringify(obj)) > maxOutputLength
WithinBudget == returned /\ Len(Stringify(obj)) <= maxOutputLength

(* The keys of i whose values the pass visits: the first KeyLimit of       *)
(* Object.keys(i), less the key the marker of an over-long object          *)
(* overwrites.                                                             *)
VisitedKeys(i) ==
    LET keys == ObjectKeys(i)
        n == IF Len(keys) <= KeyLimit THEN Len(keys) ELSE KeyLimit
    IN  {keys[j] : j \in 1..n}
          \ (IF Len(keys) > KeyLimit
             THEN {"..." \o ToString(Len(keys) - KeyLimit) \o " more properties"}
             ELSE {})

(* P holds of every value i the pass reaches and of the value o it put in  *)
(* its place.                                                              *)
RECURSIVE AllReached(_, _, _)
AllReached(P(_, _), i, o) ==
    /\ P(i, o)
    /\ (i.t = "arr" /\ o.t = "arr" /\ Len(i.a) >= 1 /\ Len(o.a) >= 1)
          => AllReached(P, i.a[1], o.a[1])
    /\ (i.t = "obj" /\ o.t = "obj")
          => \A k \in VisitedKeys(i) : HasKey(o, k) => AllReached(P, Get(i, k), Get(o, k))

(* Some value the pass reaches below the root satisfies P.                 *)
RECURSIVE SomeReachedBelow(_, _, _)
SomeReachedBelow(P(_, _), i, o) ==
    \/ /\ i.t = "arr" /\ o.t = "arr" /\ Len(i.a) >= 1 /\ Len(o.a) >= 1
       /\ \/ P(i.a[1], o.a[1])
          \/ SomeReachedBelow(P, i.a[1], o.a[1])
    \/ /\ i.t = "obj" /\ o.t = "obj"
       /\ \E k \in VisitedKeys(i) :
            /\ HasKey(o, k)
            /\ \/ P(Get(i, k), Get(o, k))
               \/ SomeReachedBelow(P, Get(i, k), Get(o, k))

(* Some value anywhere in v satisfies P.                                   *)
RECURSIVE SomeNode(_, _)
SomeNode(P(_), v) ==
    \/ P(v)
    \/ v.t = "arr" /\ \E j \in 1..Len(v.a) : SomeNode(P, v.a[j])
    \/ v.t = "obj" /\ \E j \in 1..Len(v.kv) : SomeNode(P, v.kv[j].v)

IsLongString(v) == v.t = "str" /\ Len(v.s) > 200
IsLongArray(v) == v.t = "arr" /\ Len(v.a) >= 2
IsLargeObject(v) == v.t = "obj" /\ Len(v.kv) > 200

-----------------------------------------------------------------------------
(* C1: a value whose serialization is no longer than the budget is         *)
(* returned as it is, whatever it holds at any depth.                      *)
PassThrough == WithinBudget => result = obj

PassThroughWitness ==
    /\ WithinBudget
    /\ result = obj
    /\ IsLongArray(obj)
    /\ SomeNode(IsLongString, obj)
    /\ SomeNode(IsLargeObject, obj)

ArrayCapAt(i, o) ==
    i.t = "arr" =>
        /\ o.t = "arr"
        /\ IF Len(i.a) >= 2
           THEN /\ Len(o.a) = 2
                /\ o.a[1] = truncateValue(i.a[1])
                /\ o.a[2] = Str("..." \o ToString(Len(i.a) - 1) \o " more items")
           ELSE /\ Len(o.a) = Len(i.a)
                /\ \A j \in 1..Len(i.a) : o.a[j].t = i.a[j].t

(* C2: over budget, every array the pass reaches that has N >= 2 items     *)
(* becomes the bounded first item followed by the marker of N - 1 dropped  *)
(* items; an array of 0 or 1 items keeps its length.                       *)
ArrayCap == OverBudget => AllReached(ArrayCapAt, obj, result)

LongArrayCapped(i, o) ==
    IsLongArray(i) /\ o.t = "arr" /\ Len(o.a) = 2 /\ IsLongString(i.a[1])

ArrayCapWitness ==
    /\ OverBudget
    /\ obj.t = "arr" /\ Len(obj.a) = 1 /\ result.t = "arr" /\ Len(result.a) = 1
    /\ SomeReachedBelow(LongArrayCapped, obj, result)

StringCapAt(i, o) ==
    i.t = "str" =>
        IF Len(i.s) > 200
        THEN /\ o.t = "str"
             /\ SubSeq(o.s, 1, 200) = SubSeq(i.s, 1, 200)
             /\ SubSeq(o.s, 201, Len(o.s))
                  = "..." \o ToString(Len(i.s) - 200) \o " more characters"
        ELSE o = i

(* C3: over budget, every string the pass reaches that has L > 200         *)
(* characters becomes its first 200 characters followed by the marker of   *)
(* L - 200 elided characters; a string of at most 200 stays as it is.      *)
StringCap == OverBudget => AllReached(StringCapAt, obj, result)

LongStringCapped(i, o) == IsLongString(i) /\ o.t = "str" /\ Len(o.s) > Len(i.s)

StringCapWitness ==
    /\ OverBudget
    /\ SomeReachedBelow(LongStringCapped, obj, result)

KeySet(o) == {o.kv[j].k : j \in 1..Len(o.kv)}

SmallObjectKept(i, o) ==
    /\ Len(o.kv) = Len(i.kv)
    /\ KeySet(o) = KeySet(i)
    /\ \A k \in KeySet(i) : Get(o, k) = truncateValue(Get(i, k))

ObjectCapAt(i, o) ==
    i.t = "obj" =>
        /\ o.t = "obj"
        /\ IF Len(i.kv) > 200
           THEN LET first == SubSeq(ObjectKeys(i), 1, 200)
                    marker == "..." \o ToString(Len(i.kv) - 200) \o " more properties"
                    clash == \E j \in 1..200 : first[j] = marker
                IN  /\ InsertionKeys(o) = IF clash THEN first ELSE Append(first, marker)
                    /\ Get(o, marker) = Str("...")
                    /\ \A j \in 1..200 :
                         first[j] # marker
                           => Get(o, first[j]) = truncateValue(Get(i, first[j]))
           ELSE SmallObjectKept(i, o)

(* C4: over budget, every object the pass reaches that has K > 200 keys    *)
(* becomes an object of its first 200 keys in the order of Object.keys     *)
(* (integer-like keys ascending, then the others as inserted), each with   *)
(* its bounded value, and the marker key of K - 200 with the value "...":  *)
(* 201 keys, or 200 when one of the kept keys already has the marker's     *)
(* name and is overwritten.  An object of K <= 200 keys keeps its K keys.  *)
ObjectCap == OverBudget => AllReached(ObjectCapAt, obj, result)

LargeObjectCapped(i, o) == IsLargeObject(i) /\ o.t = "obj" /\ Len(o.kv) = 201

ObjectCapWitness ==
    /\ OverBudget
    /\ obj.t = "obj" /\ Len(obj.kv) = 1 /\ result.t = "obj" /\ Len(result.kv) = 1
    /\ SomeReachedBelow(LargeObjectCapped, obj, result)

ObjectCapInsertionOrderAt(i, o) ==
    i.t = "obj" =>
        /\ o.t = "obj"
        /\ IF Len(i.kv) > 200
           THEN LET first == SubSeq(InsertionKeys(i), 1, 200)
                    marker == "..." \o ToString(Len(i.kv) - 200) \o " more properties"
                IN  /\ Len(o.kv) = 201
                    /\ SubSeq(InsertionKeys(o), 1, 200) = first
                    /\ o.kv[201].k = marker
           ELSE SmallObjectKept(i, o)

(* C4 as first stated: the first 200 keys in insertion order survive and   *)
(* the result has 201 keys.                                                *)
ObjectCapInsertionOrder ==
    OverBudget => AllReached(ObjectCapInsertionOrderAt, obj, result)

RECURSIVE Capped(_)
Capped(v) ==
    CASE v.t = "str" ->
            \/ Len(v.s) <= 200
            \/ LET marker == SubSeq(v.s, 201, Len(v.s))
                   count == Slice(marker, 4, Len(marker) - Len(" more characters"))
               IN  /\ Len(count) >= 1
                   /\ \A j \in 1..Len(count) : IsDigit(SubSeq(count, j, j))
                   /\ marker = "..." \o count \o " more characters"
      [] v.t = "arr" ->
            /\ \/ Len(v.a) <= 1
               \/ /\ Len(v.a) = 2
                  /\ \E n \in 1..MaxArrayLength :
                       v.a[2] = Str("..." \o ToString(n) \o " more items")
            /\ \A j \in 1..Len(v.a) : Capped(v.a[j])
      [] v.t = "obj" ->
            /\ \/ Len(v.kv) <= 200
               \/ /\ Len(v.kv) = 201
                  /\ \E n \in 1..MaxExtra :
                       v.kv[201] = Entry("..." \o ToString(n) \o " more properties",
                                         Str("..."))
            /\ \A j \in 1..Len(v.kv) : Capped(v.kv[j].v)
      [] OTHER -> TRUE

(* C5: over budget, the caps hold of the result at every depth: each       *)
(* string is at most 200 characters or 200 characters and a marker, each   *)
(* array at most one item or one item and a marker, each object at most    *)
(* 200 keys or 200 keys and a marker key.                                  *)
RecursiveComposition == OverBudget => Capped(result)

NestedOverCap(i, o) ==
    (IsLongString(i) \/ IsLongArray(i) \/ IsLargeObject(i)) /\ Capped(o)

DeepOverCap(i, o) == SomeReachedBelow(NestedOverCap, i, o)

RecursiveCompositionWitness ==
    /\ OverBudget
    /\ Capped(result)
    /\ SomeReachedBelow(DeepOverCap, obj, result)

-----------------------------------------------------------------------------
(* C6: whatever the interleaving, at most one MongoClient is constructed,  *)
(* connect() is called at most once, and every handler waits on or uses    *)
(* that one client.                                                        *)
SingleConnection ==
    /\ Len(clients) <= 1
    /\ \A i \in 1..Len(clients) : clients[i].connectCalls = 1
    /\ \A t \in Tasks :
         /\ tasks[t].pc = "connecting" => tasks[t].client = 1 /\ mongoClient = 1
         /\ tasks[t].pc = "driver" => tasks[t].db.client = 1 /\ mongoClient = 1

SingleConnectionWitness ==
    /\ tasks[1].pc = "connecting"
    /\ tasks[2].pc = "driver"
    /\ Len(clients) = 1
    /\ clients[1].connect = "pending"

(* The message each handler's catch is to raise for a failure.             *)
ExpectedFailure(tool, message) ==
    "Failed to "
      \o (CASE tool = "mongo-create-document" -> "create document"
            [] tool = "mongo-find-documents" -> "find documents"
            [] tool = "mongo-update-document" -> "update document(s)"
            [] tool = "mongo-delete-document" -> "delete document(s)"
            [] tool = "mongo-aggregate" -> "execute aggregation"
            [] tool = "mongo-count-documents" -> "count documents"
            [] tool = "mongo-list-collections" -> "list collections")
      \o ": " \o message

ConfigurationErrorStep ==
    \A t \in Tasks :
        (tasks[t].pc = "idle" /\ tasks'[t].pc # "idle" /\ mongoClient = NoClient) =>
            IF Falsy(env)
            THEN /\ tasks'[t] = Closed(0, "config", TRUE)
                 /\ sent'.task = t
                 /\ sent'.isError
                 /\ sent'.text = ExpectedFailure(sent'.tool,
                                   "MONGODB_URI environment variable is not set")
                 /\ mongoClient' = NoClient
                 /\ clients' = clients
                 /\ databases' = databases
                 /\ dbCreated' = dbCreated
            ELSE /\ Len(clients') = Len(clients) + 1
                 /\ mongoClient' = Len(clients')
                 /\ clients'[mongoClient'].uri = env.s
                 /\ tasks'[t].pc = "connecting"
                 /\ sent' = sent

(* C7: an invocation that finds no client and no URI fails with the        *)
(* configuration error, constructs no client, issues no driver call and    *)
(* leaves mongoClient null and the cache as it was; one that finds no      *)
(* client and a URI constructs the client with it and goes on to connect.  *)
ConfigurationError == [][ConfigurationErrorStep]_vars

ConfigurationErrorWitness ==
    /\ tasks[1] = Closed(0, "config", TRUE)
    /\ tasks[2].pc = "connecting"
    /\ mongoClient = 1
    /\ clients[1].uri = MongoUri

(* C8: every failure, of the acquisition or of the driver call, reaches    *)
(* the client as an error whose message is "Failed to <operation>: " and   *)
(* the failure's message; a handler that met a failure returns no content  *)
(* block.                                                                  *)
ErrorEnvelope ==
    /\ \A t \in Tasks :
         tasks[t].pc = "closed" => (tasks[t].threw <=> tasks[t].stage # "none")
    /\ sent # NoMessage =>
         /\ tasks[sent.task].pc = "closed"
         /\ sent.isError <=> tasks[sent.task].threw
         /\ sent.isError => sent.text = ExpectedFailure(sent.tool, sent.cause.message)

ErrorEnvelopeWitness ==
    /\ sent # NoMessage
    /\ sent.isError
    /\ sent.tool = "mongo-list-collections"
    /\ tasks[sent.task].stage = "driver"
    /\ \E t \in Tasks : tasks[t].pc = "closed" /\ tasks[t].stage = "connect"

RECURSIVE SumOver(_, _)
SumOver(f(_), n) == IF n = 0 THEN 0 ELSE f(n) + SumOver(f, n - 1)

OpsOf(t) == IF tasks[t].pc = "idle" THEN 0 ELSE tasks[t].ops
InvokedOf(t) == IF tasks[t].pc = "idle" THEN 0 ELSE 1

(* C9: a handler issues its one driver call after it has its Db handle,    *)
(* none when the acquisition fails, and no second one after a failure; so  *)
(* the driver calls are never more than the invocations.                   *)
OneDriverCall ==
    /\ \A t \in Tasks :
         /\ tasks[t].pc = "connecting" => tasks[t].ops = 0
         /\ tasks[t].pc = "driver" =>
              /\ tasks[t].ops = 1
              /\ tasks[t].db # NoDb
              /\ tasks[t].db.name = tasks[t].inv.database
         /\ tasks[t].pc = "closed" =>
              tasks[t].ops = IF tasks[t].stage \in {"none", "driver"} THEN 1 ELSE 0
    /\ SumOver(OpsOf, NumInvocations) <= SumOver(InvokedOf, NumInvocations)

OneDriverCallWitness ==
    /\ tasks[1] = Closed(1, "driver", TRUE)
    /\ tasks[2] = Closed(1, "none", FALSE)
    /\ SumOver(OpsOf, NumInvocations) = 2

FindWithLimit ==
    /\ sent # NoMessage
    /\ ~sent.isError
    /\ sent.tool = "mongo-find-documents"
    /\ sent.args.limit.t = "num"
    /\ sent.args.limit.n >= 1
    /\ Len(sent.data.matching) >= sent.args.limit.n

FoundPrefix == "Found " \o ToString(sent.args.limit.n) \o " document(s):"
FoundBody == Slice(sent.text, Len(FoundPrefix) + 3, Len(sent.text))

(* The documents of a formatted array: the lines that open an object at    *)
(* the indentation of the array's items.                                   *)
DocumentsIn(text) == Cardinality({i \in 1..Len(text) : Slice(text, i, i + 3) = "\n  {"})

EndsWith(text, suffix) == Slice(text, Len(text) - Len(suffix) + 1, Len(text)) = suffix

(* C10: find-documents with limit L >= 1 on a collection of M >= L         *)
(* matching documents answers "Found L document(s):"; the formatted output *)
(* holds L documents when the L documents serialize to at most 25000       *)
(* characters or L = 1, and otherwise the first document alone, followed   *)
(* by the annotation of L - 1 more items.                                  *)
FindWithLimitBounded ==
    FindWithLimit =>
        LET L == sent.args.limit.n
            size == Len(Stringify(Arr(SubSeq(sent.data.matching, 1, L))))
        IN  /\ Slice(sent.text, 1, Len(FoundPrefix) + 2) = FoundPrefix \o "\n\n"
            /\ IF L = 1 \/ size <= 25000
               THEN DocumentsIn(FoundBody) = L
               ELSE /\ DocumentsIn(FoundBody) = 1
                    /\ EndsWith(FoundBody, ",\n  ..." \o ToString(L - 1) \o " more items\n]")

FindWithLimitWitness ==
    /\ FindWithLimit
    /\ sent.args.limit.n = 3
    /\ Len(sent.data.matching) = 4
    /\ DocumentsIn(FoundBody) = 3

(* C10 as first stated: the formatted output holds exactly L documents.    *)
FindWithLimitExact ==
    FindWithLimit =>
        /\ Slice(sent.text, 1, Len(FoundPrefix) + 2) = FoundPrefix \o "\n\n"
        /\ DocumentsIn(FoundBody) = sent.args.limit.n

-----------------------------------------------------------------------------
(* Properties of the handle cache and of the connection.                   *)

Cached == {n \in DbNames : databases[n] # NoDb}

HandleCacheState ==
    /\ dbCreated = Cardinality(Cached)
    /\ \A n \in Cached : databases[n].name = n
    /\ \A t \in Tasks :
         tasks[t].pc = "driver" =>
            /\ tasks[t].inv.database \in Cached
            /\ tasks[t].db = databases[tasks[t].inv.database]

HandleCacheStep ==
    /\ \A n \in Cached : databases'[n] = databases[n]
    /\ dbCreated' - dbCreated
         = Cardinality({n \in DbNames : databases[n] = NoDb /\ databases'[n] # NoDb})

(* C11: a Db handle is created only when it is put in the cache under a    *)
(* name that had none, an entry of the cache is never removed or replaced, *)
(* and every handler that has a handle has the one cached under its        *)
(* database's name.                                                        *)
HandleCache == []HandleCacheState /\ [][HandleCacheStep]_vars

HandleCacheWitness ==
    /\ tasks[1].pc = "driver"
    /\ tasks[2].pc = "driver"
    /\ tasks[1].inv.database = tasks[2].inv.database
    /\ tasks[1].db = tasks[2].db
    /\ clients[1].connect = "resolved"
    /\ dbCreated = 1

-----------------------------------------------------------------------------
(* Properties of the size of what the bounding pass returns.               *)

Size(v) == Len(Stringify(v))

(* Some value the pass reaches in v is replaced by a marker longer than    *)
(* the content the marker stands for.                                      *)
RECURSIVE Lengthens(_)
Lengthens(v) ==
    CASE v.t = "str" ->
            /\ Len(v.s) > 200
            /\ Len("..." \o ToString(Len(v.s) - 200) \o " more characters")
                 > Len(v.s) - 200
      [] v.t = "arr" ->
            IF Len(v.a) <= 1
            THEN \E j \in 1..Len(v.a) : Lengthens(v.a[j])
            ELSE \/ Lengthens(v.a[1])
                 \/ Size(Arr(<<Str("..." \o ToString(Len(v.a) - 1) \o " more items")>>))
                      > Size(Arr(Tail(v.a)))
      [] v.t = "obj" ->
            LET keys == ObjectKeys(v)
            IN  IF Len(keys) <= 200
                THEN \E j \in 1..Len(keys) : Lengthens(Get(v, keys[j]))
                ELSE LET marker == "..." \o ToString(Len(keys) - 200) \o " more properties"
                         kept == {keys[j] : j \in 1..200}
                         dropped == [j \in 1..(Len(keys) - 200) |->
                                       Entry(keys[200 + j], Get(v, keys[200 + j]))]
                     IN  \/ \E k \in kept \ {marker} : Lengthens(Get(v, k))
                         \/ IF marker \in kept
                            THEN Size(Str("...")) > Size(Get(v, marker))
                            ELSE Size(Obj(<<Entry(marker, Str("..."))>>))
                                   > Size(Obj(dropped))
      [] OTHER -> FALSE

(* C12: over budget, the serialization of the result is not longer than    *)
(* that of the value, unless the pass reaches a value whose marker is      *)
(* longer than the content it stands for: a string of 201 to 220           *)
(* characters, an array whose items after the first serialize shorter than *)
(* the items marker, an object whose keys after the first 200 serialize    *)
(* shorter than the properties marker.                                     *)
ShrinksUnlessMarkerLonger ==
    (OverBudget /\ ~Lengthens(obj)) => Size(result) <= Size(obj)

ShrinksUnlessMarkerLongerWitness ==
    /\ OverBudget
    /\ ~Lengthens(obj)
    /\ IsLargeObject(obj)
    /\ result # obj
    /\ Size(result) = Size(obj)

(* C12 as first stated: the serialization of the result is never longer    *)
(* than that of the value.                                                 *)
Shrinking == returned => Size(result) <= Size(obj)

-----------------------------------------------------------------------------
(* C13: a handler has its Db handle and its driver call in flight only     *)
(* when the connect() of the client behind the handle has resolved.        *)
ConnectedBeforeUse ==
    \A t \in Tasks :
        tasks[t].pc = "driver" => clients[tasks[t].db.client].connect = "resolved"

-----------------------------------------------------------------------------
ConnectFailed == mongoClient # NoClient /\ clients[mongoClient].connect = "rejected"

FailedConnectStep ==
    /\ \A t \in Tasks :
         (tasks[t].pc = "connecting" /\ tasks'[t].pc = "closed") =>
            /\ tasks'[t].threw
            /\ sent'.task = t
            /\ sent'.isError
            /\ sent'.text = ExpectedFailure(sent'.tool, sent'.cause.message)
            /\ mongoClient' = tasks[t].client
            /\ clients'[mongoClient'].connect = "rejected"
    /\ ConnectFailed =>
         /\ mongoClient' = mongoClient
         /\ clients' = clients
         /\ \A t \in Tasks :
              (tasks[t].pc = "idle" /\ tasks'[t].pc # "idle") =>
                 /\ tasks'[t].pc = "driver"
                 /\ tasks'[t].ops = 1
                 /\ tasks'[t].db = databases'[tasks'[t].inv.database]
                 /\ tasks'[t].db.client = mongoClient
                 /\ sent' = sent

(* C14: the invocation whose connect() fails fails with a tool-level       *)
(* error, and mongoClient stays the client whose connect failed; from then *)
(* on no client is constructed and connect() is not called again: every    *)
(* invocation takes its handle from the cache and issues its driver call.  *)
FailedConnectSticky == [][FailedConnectStep]_vars

FailedConnectStickyWitness ==
    /\ ConnectFailed
    /\ Len(clients) = 1
    /\ clients[1].connectCalls = 1
    /\ tasks[1] = Closed(0, "connect", TRUE)
    /\ tasks[2].pc = "driver"
    /\ tasks[2].db.client = 1
    /\ sent.task = 1
    /\ sent.isError

====
